---- MODULE Spec2Model ----
(***************************************************************************)
(* A model of aviator.py: the PNR segment-line parser, the overnight       *)
(* correction of the arrival time, and the itinerary assembler.            *)
(*                                                                         *)
(* Text is a sequence of one-character strings.  What the program writes   *)
(* outside ASCII (the calendar and warning signs, the two dashes, the      *)
(* Russian words of the months, of the durations and of the messages) is   *)
(* one element per sign or word, named between angle brackets; no          *)
(* character of them is a digit, a white-space character or a line break.  *)
(*                                                                         *)
(* A datetime is a record [wall, aware, off]: wall is the wall-clock time  *)
(* in minutes since 1 January 00:00 of the year of the run, aware tells a  *)
(* zone-aware datetime from a naive one, and off is the UTC offset in      *)
(* minutes of the tzinfo the datetime carries (0 when naive).              *)
(***************************************************************************)
EXTENDS Integers, Sequences, FiniteSets, TLC

VARIABLES text, year, mode, pc, lines, idx, segments, out, prev_arr,
          result, exc, first

vars == <<text, year, mode, pc, lines, idx, segments, out, prev_arr,
          result, exc, first>>

(***************************************************************************)
(* Characters and the str methods the program uses                         *)
(***************************************************************************)
Digits == {"0", "1", "2", "3", "4", "5", "6", "7", "8", "9"}

UpperSeq == <<"A", "B", "C", "D", "E", "F", "G", "H", "I", "J", "K", "L", "M",
              "N", "O", "P", "Q", "R", "S", "T", "U", "V", "W", "X", "Y", "Z">>

LowerSeq == <<"a", "b", "c", "d", "e", "f", "g", "h", "i", "j", "k", "l", "m",
              "n", "o", "p", "q", "r", "s", "t", "u", "v", "w", "x", "y", "z">>

UpperLetters == {UpperSeq[i] : i \in DOMAIN UpperSeq}

LowerLetters == {LowerSeq[i] : i \in DOMAIN LowerSeq}

\* the characters str.strip(), str.split() and the pattern \s take as white space
WhiteSpace == {" ", "\t", "\n"}

\* the characters str.splitlines() breaks a text at
LineBreaks == {"\n"}

UpperOf == [c \in LowerLetters |-> UpperSeq[CHOOSE i \in DOMAIN LowerSeq : LowerSeq[i] = c]]

\* str.upper(), one character at a time
Upper(s) == [i \in DOMAIN s |-> IF s[i] \in LowerLetters THEN UpperOf[s[i]] ELSE s[i]]

DigitValue(c) == CHOOSE v \in 0..9 : <<"0", "1", "2", "3", "4", "5", "6", "7", "8", "9">>[v + 1] = c

\* int() of a string of decimal digits
RECURSIVE ParseInt(_)
ParseInt(s) ==
  IF s = <<>> THEN 0
  ELSE 10 * ParseInt(SubSeq(s, 1, Len(s) - 1)) + DigitValue(s[Len(s)])

DigitChar(v) == <<"0", "1", "2", "3", "4", "5", "6", "7", "8", "9">>[v + 1]

\* str() of a non-negative integer
RECURSIVE IntToStr(_)
IntToStr(n) ==
  IF n < 10 THEN <<DigitChar(n)>>
  ELSE Append(IntToStr(n \div 10), DigitChar(n % 10))

\* the zero-padded two digits of strftime's %H and %M
TwoDigits(n) == <<DigitChar(n \div 10), DigitChar(n % 10)>>

\* the length of the longest prefix of s, from position i on, made of characters of set
RECURSIVE RunLen(_, _, _)
RunLen(s, i, set) ==
  IF i > Len(s) \/ s[i] \notin set THEN 0 ELSE 1 + RunLen(s, i + 1, set)

\* the length of the longest run of s, from position i on, with no character of set
RECURSIVE RunLenNot(_, _, _)
RunLenNot(s, i, set) ==
  IF i > Len(s) \/ s[i] \in set THEN 0 ELSE 1 + RunLenNot(s, i + 1, set)

\* the length of the longest run of characters of set that ends s at position i
RECURSIVE RunLenBack(_, _, _)
RunLenBack(s, i, set) ==
  IF i < 1 \/ s[i] \notin set THEN 0 ELSE 1 + RunLenBack(s, i - 1, set)

\* str.strip()
Strip(s) ==
  LET a == RunLen(s, 1, WhiteSpace) + 1
      b == Len(s) - RunLenBack(s, Len(s), WhiteSpace)
  IN IF a > b THEN <<>> ELSE SubSeq(s, a, b)

\* str.split(): the maximal runs of characters that are not white space
RECURSIVE SplitFrom(_, _)
SplitFrom(s, i) ==
  LET a == i + RunLen(s, i, WhiteSpace)
      n == RunLenNot(s, a, WhiteSpace)
  IN IF a > Len(s) THEN <<>>
     ELSE <<SubSeq(s, a, a + n - 1)>> \o SplitFrom(s, a + n)

Split(s) == SplitFrom(s, 1)

\* str.splitlines(): the pieces between line breaks, no empty piece after a final break
RECURSIVE SplitLinesFrom(_, _)
SplitLinesFrom(s, i) ==
  LET n == RunLenNot(s, i, LineBreaks)
  IN IF i > Len(s) THEN <<>>
     ELSE <<SubSeq(s, i, i + n - 1)>> \o SplitLinesFrom(s, i + n + 1)

SplitLines(s) == SplitLinesFrom(s, 1)

\* "\n".join(list)
RECURSIVE JoinLines(_)
JoinLines(ls) ==
  IF ls = <<>> THEN <<>>
  ELSE IF Len(ls) = 1 THEN ls[1]
  ELSE ls[1] \o <<"\n">> \o JoinLines(Tail(ls))

\* str.lstrip("0")
LStripZeros(s) == SubSeq(s, RunLen(s, 1, {"0"}) + 1, Len(s))

(***************************************************************************)
(* The patterns                                                            *)
(***************************************************************************)
AlnumUpper == UpperLetters \cup Digits

\* a faulty variant of SEGMENT_START_RE: ^\s*\d+, with no white space asked for after
\* the digits
SegmentStartDigitsOnly(line) == RunLen(line, RunLen(line, 1, WhiteSpace) + 1, Digits) >= 1

\* SEGMENT_START_RE = ^\s*\d+\s+ matched at the start of the line
SEGMENT_START_RE(line) ==
  LET a == RunLen(line, 1, WhiteSpace) + 1
      n == RunLen(line, a, Digits)
  IN /\ n >= 1
     /\ a + n <= Len(line)
     /\ line[a + n] \in WhiteSpace

\* TIME_RE = ^\d{4}(\+\d+)?$
TIME_RE(t) ==
  /\ Len(t) >= 4
  /\ RunLen(t, 1, Digits) >= 4
  /\ \/ Len(t) = 4
     \/ /\ Len(t) >= 6
        /\ t[5] = "+"
        /\ RunLen(t, 6, Digits) = Len(t) - 5

\* the first pattern of the flight detection, ^([A-Z0-9]{2,3})(\d{1,4}), on t1: the
\* length the greedy first group ends with (it gives back its third character only
\* when no digit follows the three), 0 when there is no match
MergedGroup1Len(t1) ==
  IF Len(t1) >= 4 /\ RunLen(t1, 1, AlnumUpper) >= 3 /\ t1[4] \in Digits THEN 3
  ELSE IF Len(t1) >= 3 /\ RunLen(t1, 1, AlnumUpper) >= 2 /\ t1[3] \in Digits THEN 2
  ELSE 0

Min(a, b) == IF a < b THEN a ELSE b

\* ^(\d{1,4}) from position i of t: the digits the group takes
LeadingDigits(t, i) == SubSeq(t, i, i + Min(4, RunLen(t, i, Digits)) - 1)

\* ^[A-Z0-9]{2,3}$
BareCode(t1) == Len(t1) \in {2, 3} /\ RunLen(t1, 1, AlnumUpper) = Len(t1)

\* the token at the 0-based position i of the list
Tok(tokens, i) == tokens[i + 1]

\* airline + flight detection; cursor is the 0-based position the date scan starts at
FlightIdentifier(tokens) ==
  LET t1 == Upper(Tok(tokens, 1))
      t2 == IF Len(tokens) > 2 THEN Upper(Tok(tokens, 2)) ELSE <<>>
      g1 == MergedGroup1Len(t1)
  IN IF g1 > 0 /\ Len(t1) > g1
       THEN [ok |-> TRUE, airline |-> SubSeq(t1, 1, g1),
             flight_no |-> LeadingDigits(t1, g1 + 1), cursor |-> 2]
     ELSE IF BareCode(t1) /\ RunLen(t2, 1, Digits) >= 1
       THEN [ok |-> TRUE, airline |-> t1,
             flight_no |-> LeadingDigits(t2, 1), cursor |-> 3]
     ELSE [ok |-> FALSE, airline |-> <<>>, flight_no |-> <<>>, cursor |-> 0]

\* ^\d{2}[A-Z]{3}$
DateShape(cand) ==
  /\ Len(cand) = 5
  /\ RunLen(cand, 1, Digits) = 2
  /\ RunLen(cand, 3, UpperLetters) = 3

\* the 0-based position of the date token, -1 when no token from cursor on has the shape
DateIndex(tokens, cursor) ==
  LET hits == {i \in cursor..(Len(tokens) - 1) : DateShape(Upper(Tok(tokens, i)))}
  IN IF hits = {} THEN -1 ELSE CHOOSE i \in hits : \A j \in hits : i <= j

\* a faulty variant of RouteMatch: the letters at the start of the token are six, no more
RouteMatchExactlySix(tok) == RunLen(tok, 1, UpperLetters) = 6

\* ^([A-Z]{6}) on the upper-cased token
RouteMatch(tok) == RunLen(tok, 1, UpperLetters) >= 6

\* the 0-based position of the route token, -1 when no token after the date matches
RouteIndex(tokens, date_idx) ==
  LET hits == {i \in (date_idx + 1)..(Len(tokens) - 1) : RouteMatch(Upper(Tok(tokens, i)))}
  IN IF hits = {} THEN -1 ELSE CHOOSE i \in hits : \A j \in hits : i <= j

\* the 0-based positions of the tokens pick_times appends to times, in order
RECURSIVE TimePositionsFrom(_, _)
TimePositionsFrom(tokens, i) ==
  IF i > Len(tokens) - 1 THEN <<>>
  ELSE IF TIME_RE(Strip(Tok(tokens, i))) THEN <<i>> \o TimePositionsFrom(tokens, i + 1)
  ELSE TimePositionsFrom(tokens, i + 1)

TimePositions(tokens) == TimePositionsFrom(tokens, 0)

\* pick_times: (dep, arr, offset) of the first two time tokens, or None
pick_times(tokens) ==
  LET times == TimePositions(tokens)
      dep == Strip(Tok(tokens, times[1]))
      arr_raw == Strip(Tok(tokens, times[2]))
  IN IF Len(times) < 2 THEN [ok |-> FALSE, dep |-> <<>>, arr |-> <<>>, offset |-> 0]
     ELSE [ok |-> TRUE,
           dep |-> SubSeq(dep, 1, 4),
           arr |-> SubSeq(arr_raw, 1, 4),
           offset |-> IF Len(arr_raw) > 4 THEN ParseInt(SubSeq(arr_raw, 6, Len(arr_raw))) ELSE 0]

(***************************************************************************)
(* Dates and zones                                                         *)
(***************************************************************************)
MonthNames ==
  << <<"J", "A", "N">>, <<"F", "E", "B">>, <<"M", "A", "R">>, <<"A", "P", "R">>,
     <<"M", "A", "Y">>, <<"J", "U", "N">>, <<"J", "U", "L">>, <<"A", "U", "G">>,
     <<"S", "E", "P">>, <<"O", "C", "T">>, <<"N", "O", "V">>, <<"D", "E", "C">> >>

IsLeap(y) == y % 4 = 0 /\ (y % 100 # 0 \/ y % 400 = 0)

DaysInMonth(y, m) ==
  IF m = 2 THEN (IF IsLeap(y) THEN 29 ELSE 28)
  ELSE IF m \in {4, 6, 9, 11} THEN 30 ELSE 31

RECURSIVE DaysBefore(_, _)
DaysBefore(y, m) == IF m = 1 THEN 0 ELSE DaysBefore(y, m - 1) + DaysInMonth(y, m - 1)

MinutesPerDay == 24 * 60

\* the wall-clock minute of the year at which month m, day d, hh:mm begins
WallOf(y, m, d, hh, mm) == (DaysBefore(y, m) + d - 1) * MinutesPerDay + hh * 60 + mm

\* parse_date: strptime and, when it fails, the month table, return the same date
\* when the month is one of the twelve and the day exists in that month of the
\* year; otherwise a ValueError leaves the function
parse_date(date_str, y) ==
  LET s == Upper(Strip(date_str))
      mon == SubSeq(s, 3, Len(s))
      day == ParseInt(SubSeq(s, 1, 2))
      ms == {m \in DOMAIN MonthNames : MonthNames[m] = mon}
      m == CHOOSE k \in ms : TRUE
  IN IF ms = {} THEN [ok |-> FALSE, wall |-> 0]
     ELSE IF day < 1 \/ day > DaysInMonth(y, m) THEN [ok |-> FALSE, wall |-> 0]
     ELSE [ok |-> TRUE, wall |-> WallOf(y, m, day, 0, 0)]

\* the years a run is given; a PNR date carries none
Years == {2026, 2028}

\* AIRPORTS = airportsdata.load("IATA"): the entries of the airports of the inputs
AIRPORTS ==
  { [iata |-> <<"N", "Q", "Z">>, tz |-> "Asia/Almaty",
     city |-> <<"A", "s", "t", "a", "n", "a">>],
    [iata |-> <<"A", "L", "A">>, tz |-> "Asia/Almaty",
     city |-> <<"A", "l", "m", "a", "t", "y">>],
    [iata |-> <<"F", "R", "A">>, tz |-> "Europe/Berlin",
     city |-> <<"F", "r", "a", "n", "k", "f", "u", "r", "t", " ", "a", "m", " ",
                "M", "a", "i", "n">>],
    [iata |-> <<"M", "U", "C">>, tz |-> "Europe/Berlin",
     city |-> <<"M", "u", "n", "i", "c", "h">>],
    [iata |-> <<"G", "V", "A">>, tz |-> "Europe/Zurich",
     city |-> <<"G", "e", "n", "e", "v", "a">>],
    [iata |-> <<"I", "S", "T">>, tz |-> "Europe/Istanbul",
     city |-> <<"I", "s", "t", "a", "n", "b", "u", "l">>],
    [iata |-> <<"H", "N", "L">>, tz |-> "Pacific/Honolulu",
     city |-> <<"H", "o", "n", "o", "l", "u", "l", "u">>],
    [iata |-> <<"A", "K", "L">>, tz |-> "Pacific/Auckland",
     city |-> <<"A", "u", "c", "k", "l", "a", "n", "d">>] }

\* RU_OVERRIDES, as loaded from the cached sheet: iata -> airport_ru
RU_OVERRIDES == { [iata |-> <<"A", "L", "A">>, airport_ru |-> <<"<Almaty>">>] }

AirportInfo(iata) == {a \in AIRPORTS : a.iata = Upper(iata)}

\* tz_for_iata: the zone name, "" for None
tz_for_iata(iata) ==
  IF AirportInfo(iata) = {} THEN "" ELSE (CHOOSE a \in AirportInfo(iata) : TRUE).tz

\* place_for_iata: the override, else the city, else the code
place_for_iata(iata) ==
  LET code == Upper(iata)
      ov == {o \in RU_OVERRIDES : o.iata = code /\ o.airport_ru # <<>>}
      info == {a \in AIRPORTS : a.iata = code /\ a.city # <<>>}
  IN IF ov # {} THEN (CHOOSE o \in ov : TRUE).airport_ru
     ELSE IF info # {} THEN (CHOOSE a \in info : TRUE).city
     ELSE code

\* the zone database: the day of March summer time begins in the European zones,
\* the day of October it ends, and for Auckland the day of April it ends and the
\* day of September it begins, in the years of the runs
EuSummerBegins(y) == WallOf(y, 3, IF y = 2026 THEN 29 ELSE 26, 3, 0)

EuSummerEnds(y) == WallOf(y, 10, IF y = 2026 THEN 25 ELSE 29, 2, 0)

NzSummerEnds(y) == WallOf(y, 4, IF y = 2026 THEN 5 ELSE 2, 2, 0)

NzSummerBegins(y) == WallOf(y, 9, IF y = 2026 THEN 27 ELSE 24, 3, 0)

\* the UTC offset, in minutes, pytz's localize (is_dst=False) gives a naive wall time
UtcOffset(tz, y, wall) ==
  CASE tz = "Asia/Almaty" -> 5 * 60
    [] tz = "Europe/Istanbul" -> 3 * 60
    [] tz = "Pacific/Honolulu" -> -10 * 60
    [] tz \in {"Europe/Berlin", "Europe/Zurich"} ->
         IF wall >= EuSummerBegins(y) /\ wall < EuSummerEnds(y) THEN 2 * 60 ELSE 60
    [] tz = "Pacific/Auckland" ->
         IF wall < NzSummerEnds(y) \/ wall >= NzSummerBegins(y) THEN 13 * 60 ELSE 12 * 60

\* a naive datetime
Naive(wall) == [wall |-> wall, aware |-> FALSE, off |-> 0]

\* pytz.timezone(tz).localize(naive)
Localize(tz, y, naive) ==
  [wall |-> naive.wall, aware |-> TRUE, off |-> UtcOffset(tz, y, naive.wall)]

\* dt.astimezone(pytz.UTC) of an aware datetime, as minutes; a naive one is its wall time
Utc(dt) == dt.wall - dt.off

\* dt + timedelta(days=n): the wall time moves, the tzinfo stays
PlusDays(dt, n) == [dt EXCEPT !.wall = @ + n * MinutesPerDay]

(***************************************************************************)
(* The segment parser                                                      *)
(***************************************************************************)
\* the fallback when a zone is missing: one day more when the arrival token carried
\* no offset and the naive arrival is before the naive departure
NaiveArrival(dep_naive, arr_naive, arr_offset) ==
  IF arr_offset = 0 /\ arr_naive.wall < dep_naive.wall
  THEN PlusDays(arr_naive, 1) ELSE arr_naive

\* a faulty variant of AwareArrival: one day more at most, where the code loops
AwareArrivalOnce(dep_local, arr_local) ==
  IF Utc(arr_local) < Utc(dep_local) THEN PlusDays(arr_local, 1) ELSE arr_local

\* while arr_utc < dep_utc: arr_local = arr_local + timedelta(days=1)
RECURSIVE AwareArrival(_, _)
AwareArrival(dep_local, arr_local) ==
  IF Utc(arr_local) < Utc(dep_local)
  THEN AwareArrival(dep_local, PlusDays(arr_local, 1)) ELSE arr_local

\* airline_name: the known carriers, "" otherwise
airline_name(iata2) ==
  LET code == Upper(iata2)
  IN CASE code = <<"K", "C">> -> <<"A", "i", "r", " ", "A", "s", "t", "a", "n", "a">>
       [] code = <<"L", "H">> -> <<"L", "u", "f", "t", "h", "a", "n", "s", "a">>
       [] code = <<"T", "K">> -> <<"T", "u", "r", "k", "i", "s", "h", " ",
                                   "A", "i", "r", "l", "i", "n", "e", "s">>
       [] code = <<"U", "A">> -> <<"U", "n", "i", "t", "e", "d", " ",
                                   "A", "i", "r", "l", "i", "n", "e", "s">>
       [] OTHER -> <<>>

None == [kind |-> "None"]

Raised(e) == [kind |-> "raise", exc |-> e]

\* parse_segment_line: None, a Segment, or an exception leaving the function. src, the
\* position of the line among the lines of the run, is not a field of the dataclass:
\* it tells the Segment objects of a run apart
parse_segment_line(line, y, src) ==
  LET tokens == Split(Strip(line))
      fid == FlightIdentifier(tokens)
      date_idx == DateIndex(tokens, fid.cursor)
      date_str == Upper(Tok(tokens, date_idx))
      route_idx == RouteIndex(tokens, date_idx)
      route6 == SubSeq(Upper(Tok(tokens, route_idx)), 1, 6)
      origin == SubSeq(route6, 1, 3)
      dest == SubSeq(route6, 4, 6)
      times == pick_times(tokens)
      base_date == parse_date(date_str, y)
      dep_h == ParseInt(SubSeq(times.dep, 1, 2))
      dep_m == ParseInt(SubSeq(times.dep, 3, 4))
      arr_h == ParseInt(SubSeq(times.arr, 1, 2))
      arr_m == ParseInt(SubSeq(times.arr, 3, 4))
      dep_naive == Naive(base_date.wall + dep_h * 60 + dep_m)
      arr_naive == PlusDays(Naive(base_date.wall + arr_h * 60 + arr_m), times.offset)
      tz_from == tz_for_iata(origin)
      tz_to == tz_for_iata(dest)
      dep_local == IF tz_from = "" \/ tz_to = "" THEN dep_naive
                   ELSE Localize(tz_from, y, dep_naive)
      arr_local == IF tz_from = "" \/ tz_to = ""
                   THEN NaiveArrival(dep_naive, arr_naive, times.offset)
                   ELSE AwareArrival(dep_local, Localize(tz_to, y, arr_naive))
  IN IF ~SEGMENT_START_RE(line) THEN None
     ELSE IF Len(tokens) < 6 THEN None
     ELSE IF ~fid.ok THEN None
     ELSE IF date_idx < 0 THEN None
     ELSE IF route_idx < 0 THEN None
     ELSE IF ~times.ok THEN None
     ELSE IF ~base_date.ok THEN Raised("ValueError")
     ELSE IF dep_h > 23 \/ dep_m > 59 \/ arr_h > 23 \/ arr_m > 59 THEN Raised("ValueError")
     ELSE [kind |-> "Segment",
           seg |-> [airline |-> fid.airline, flight |-> fid.flight_no,
                    date_str |-> date_str, origin |-> origin, dest |-> dest,
                    dep_local |-> dep_local, arr_local |-> arr_local,
                    airline_name |-> airline_name(fid.airline), src |-> src]]

(***************************************************************************)
(* Rendering                                                               *)
(***************************************************************************)
\* RU_MONTH.get(mon, mon)
RU_MONTH(mon) ==
  CASE mon = <<"J", "A", "N">> -> <<"<yanv.>">>
    [] mon = <<"F", "E", "B">> -> <<"<fevr.>">>
    [] mon = <<"M", "A", "R">> -> <<"<mar.>">>
    [] mon = <<"A", "P", "R">> -> <<"<apr.>">>
    [] mon = <<"M", "A", "Y">> -> <<"<maya>">>
    [] mon = <<"J", "U", "N">> -> <<"<iyun.>">>
    [] mon = <<"J", "U", "L">> -> <<"<iyul.>">>
    [] mon = <<"A", "U", "G">> -> <<"<avg.>">>
    [] mon = <<"S", "E", "P">> -> <<"<sent.>">>
    [] mon = <<"O", "C", "T">> -> <<"<okt.>">>
    [] mon = <<"N", "O", "V">> -> <<"<noyab.>">>
    [] mon = <<"D", "E", "C">> -> <<"<dek.>">>
    [] OTHER -> mon

\* format_date_ru
format_date_ru(date_str) ==
  LET s == Upper(Strip(date_str))
  IN LStripZeros(SubSeq(s, 1, 2)) \o <<" ">> \o RU_MONTH(SubSeq(s, 3, Len(s)))

\* plural_ru
plural_ru(n, form1, form2, form5) ==
  LET a == IF n < 0 THEN -n ELSE n
      last == a % 10
  IN IF 11 <= a % 100 /\ a % 100 <= 14 THEN form5
     ELSE IF last = 1 THEN form1
     ELSE IF 2 <= last /\ last <= 4 THEN form2
     ELSE form5

\* human_duration of a timedelta of td minutes
human_duration(td) ==
  LET total == IF td < 0 THEN -td ELSE td
      hours == total \div 60
      minutes == total % 60
      h == IntToStr(hours) \o <<" ", plural_ru(hours, "<chas>", "<chasa>", "<chasov>")>>
      m == IntToStr(minutes) \o <<" ", plural_ru(minutes, "<minutu>", "<minuty>", "<minut>")>>
  IN IF hours > 0 /\ (minutes > 0 \/ hours = 0) THEN h \o <<",", " ">> \o m
     ELSE IF hours > 0 THEN h
     ELSE m

\* dt.strftime('%H:%M')
HHMM(dt) ==
  LET t == dt.wall % MinutesPerDay
  IN TwoDigits(t \div 60) \o <<":">> \o TwoDigits(t % 60)

\* a - b of two datetimes that are both aware or both naive, in minutes
Minus(a, b) == Utc(a) - Utc(b)

\* the line of a layover of lay minutes
RenderLayover(lay) == <<"_", "<Peresadka>", " ">> \o human_duration(lay) \o <<"_">>

\* a faulty variant of RenderSegment: the line begins with the date, not with the sign
RenderSegmentBare(s) ==
  format_date_ru(s.date_str) \o <<" ">> \o HHMM(s.dep_local) \o <<" ", "<en-dash>", " ">>
    \o HHMM(s.arr_local) \o <<",", " ">>
    \o place_for_iata(s.origin) \o <<" ", "<em-dash>", " ">> \o place_for_iata(s.dest)
    \o <<",", " ">> \o s.airline \o <<" ">> \o s.flight
    \o (IF s.airline_name # <<>> THEN <<",", " ">> \o s.airline_name ELSE <<>>)
    \o <<".", " ">> \o human_duration(Minus(s.arr_local, s.dep_local))

\* the line of a segment
RenderSegment(s) ==
  <<"<calendar>">> \o format_date_ru(s.date_str) \o <<" ">>
    \o HHMM(s.dep_local) \o <<" ", "<en-dash>", " ">> \o HHMM(s.arr_local) \o <<",", " ">>
    \o place_for_iata(s.origin) \o <<" ", "<em-dash>", " ">> \o place_for_iata(s.dest)
    \o <<",", " ">> \o s.airline \o <<" ">> \o s.flight
    \o (IF s.airline_name # <<>> THEN <<",", " ">> \o s.airline_name ELSE <<>>)
    \o <<".", " ">> \o human_duration(Minus(s.arr_local, s.dep_local))

\* the message returned when no line gave a Segment
NoSegmentsMessage ==
  <<"<warning>", " ", "<Segmenty>", " ", "<ne>", " ", "<raspoznany.>">>

\* a faulty variant of LayoverDue: a layover line for a gap of zero too
LayoverDueOrTouching(lay) == lay >= 0

\* lay.total_seconds() > 0
LayoverDue(lay) == lay > 0

(***************************************************************************)
(* The sort                                                                *)
(***************************************************************************)
\* a < b of two datetimes is a TypeError when one is aware and the other naive
Comparable(a, b) == a.aware = b.aware

\* sorted, a Segment put behind the Segments that do not depart later
RECURSIVE InsertByDeparture(_, _)
InsertByDeparture(sorted, s) ==
  IF sorted = <<>> THEN <<s>>
  ELSE IF Utc(s.dep_local) < Utc(sorted[Len(sorted)].dep_local)
    THEN Append(InsertByDeparture(SubSeq(sorted, 1, Len(sorted) - 1), s), sorted[Len(sorted)])
  ELSE Append(sorted, s)

\* a faulty variant of SortByDeparture: the list is left in the order of the input
SortSkipped(segs) == segs

\* segments.sort(key=lambda s: s.dep_local): ascending and stable
RECURSIVE SortByDeparture(_)
SortByDeparture(segs) ==
  IF segs = <<>> THEN <<>>
  ELSE InsertByDeparture(SortByDeparture(SubSeq(segs, 1, Len(segs) - 1)), segs[Len(segs)])

(***************************************************************************)
(* The inputs: segment lines of the shapes the parser's docstring and the  *)
(* tests give, lines that fail at each step of the extraction, and lines   *)
(* that are not segment lines                                              *)
(***************************************************************************)
\* 1 KC 921Y 15FEB 1 NQZFRA SS1  1125  1530  /DCKC /E
Line_KC921 ==
  <<"1"," ","K","C"," ","9","2","1","Y"," ","1","5","F","E","B"," ","1"," ","N","Q","Z","F","R",
  "A"," ","S","S","1"," "," ","1","1","2","5"," "," ","1","5","3","0"," "," ","/","D","C","K",
  "C"," ","/","E">>
\* 2 LH 116Y 15FEB 1 FRAMUC SS1  1715  1810  /DCLH /E
Line_LH116 ==
  <<"2"," ","L","H"," ","1","1","6","Y"," ","1","5","F","E","B"," ","1"," ","F","R","A","M","U",
  "C"," ","S","S","1"," "," ","1","7","1","5"," "," ","1","8","1","0"," "," ","/","D","C","L",
  "H"," ","/","E">>
\* 2 LH 118Y 15FEB 1 FRAMUC SS1 1530 1625
Line_LH118 ==
  <<"2"," ","L","H"," ","1","1","8","Y"," ","1","5","F","E","B"," ","1"," ","F","R","A","M","U",
  "C"," ","S","S","1"," ","1","5","3","0"," ","1","6","2","5">>
\* 3 LH 900Y 15FEB 1 FRANQZ SS1 0725 1600
Line_LH900 ==
  <<"3"," ","L","H"," ","9","0","0","Y"," ","1","5","F","E","B"," ","1"," ","F","R","A","N","Q",
  "Z"," ","S","S","1"," ","0","7","2","5"," ","1","6","0","0">>
\* 1 TK 351 C 15MAR 7 ALAIST HK1 0635 1035 333 E 0 M SEE RTSVC
Line_TK351 ==
  <<"1"," ","T","K"," ","3","5","1"," ","C"," ","1","5","M","A","R"," ","7"," ","A","L","A","I",
  "S","T"," ","H","K","1"," ","0","6","3","5"," ","1","0","3","5"," ","3","3","3"," ","E"," ",
  "0"," ","M"," ","S","E","E"," ","R","T","S","V","C">>
\* 2 TK1921 C 15MAR 7 ISTGVA HK1 1225 1340 32Q E 0 M SEE RTSVC
Line_TK1921m ==
  <<"2"," ","T","K","1","9","2","1"," ","C"," ","1","5","M","A","R"," ","7"," ","I","S","T","G",
  "V","A"," ","H","K","1"," ","1","2","2","5"," ","1","3","4","0"," ","3","2","Q"," ","E"," ",
  "0"," ","M"," ","S","E","E"," ","R","T","S","V","C">>
\* 2 TK 1921 C 15JUL 7 ISTGVA HK1 1225 1340
Line_TK1921s ==
  <<"2"," ","T","K"," ","1","9","2","1"," ","C"," ","1","5","J","U","L"," ","7"," ","I","S","T",
  "G","V","A"," ","H","K","1"," ","1","2","2","5"," ","1","3","4","0">>
\* 1 TK 350 C 25MAR 3 ISTALA HK1 2110 0435+1 333 E 0 M SEE RTSVC
Line_TK350 ==
  <<"1"," ","T","K"," ","3","5","0"," ","C"," ","2","5","M","A","R"," ","3"," ","I","S","T","A",
  "L","A"," ","H","K","1"," ","2","1","1","0"," ","0","4","3","5","+","1"," ","3","3","3"," ",
  "E"," ","0"," ","M"," ","S","E","E"," ","R","T","S","V","C">>
\* 	1 tk 353Y 15mar 7 alaist*SS1 0950 1410
Line_TK353 ==
  <<"\t","1"," ","t","k"," ","3","5","3","Y"," ","1","5","m","a","r"," ","7"," ","a","l","a",
  "i","s","t","*","S","S","1"," ","0","9","5","0"," ","1","4","1","0">>
\* 5 UA 12Y 29FEB 1 HNLAKL SS1 2300 0100
Line_UA12 ==
  <<"5"," ","U","A"," ","1","2","Y"," ","2","9","F","E","B"," ","1"," ","H","N","L","A","K","L",
  " ","S","S","1"," ","2","3","0","0"," ","0","1","0","0">>
\* 1 KC 921Y 15XXX 1 NQZFRA SS1 1125 1530
Line_BadMon ==
  <<"1"," ","K","C"," ","9","2","1","Y"," ","1","5","X","X","X"," ","1"," ","N","Q","Z","F","R",
  "A"," ","S","S","1"," ","1","1","2","5"," ","1","5","3","0">>
\* 3 KC 105Y 15FEB 1 QQQZZZ SS1 2300 0100
Line_Naive ==
  <<"3"," ","K","C"," ","1","0","5","Y"," ","1","5","F","E","B"," ","1"," ","Q","Q","Q","Z","Z",
  "Z"," ","S","S","1"," ","2","3","0","0"," ","0","1","0","0">>
\* 4 KC 7 15FEB 1 NQZQQQ SS1 0900 0800+2
Line_NaiveP2 ==
  <<"4"," ","K","C"," ","7"," ","1","5","F","E","B"," ","1"," ","N","Q","Z","Q","Q","Q"," ","S",
  "S","1"," ","0","9","0","0"," ","0","8","0","0","+","2">>
\* 4 KC 77Y 15FEB OPERATED NQZFRA 1125 1530
Line_Long ==
  <<"4"," ","K","C"," ","7","7","Y"," ","1","5","F","E","B"," ","O","P","E","R","A","T","E","D",
  " ","N","Q","Z","F","R","A"," ","1","1","2","5"," ","1","5","3","0">>
\* 1 KC 921Y 15FEB 1 NQZ-FRA 1125 1530
Line_NoRoute ==
  <<"1"," ","K","C"," ","9","2","1","Y"," ","1","5","F","E","B"," ","1"," ","N","Q","Z","-","F",
  "R","A"," ","1","1","2","5"," ","1","5","3","0">>
\* SOME RANDOM TEXT
Line_Noise1 ==
  <<"S","O","M","E"," ","R","A","N","D","O","M"," ","T","E","X","T">>
\* 1A KC 921Y 15FEB 1 NQZFRA SS1 1125 1530
Line_Noise3 ==
  <<"1","A"," ","K","C"," ","9","2","1","Y"," ","1","5","F","E","B"," ","1"," ","N","Q","Z","F",
  "R","A"," ","S","S","1"," ","1","1","2","5"," ","1","5","3","0">>
Catalogue ==
  {Line_KC921, Line_LH116, Line_LH118, Line_LH900, Line_TK351,
   Line_TK1921m, Line_TK1921s, Line_TK350, Line_TK353, Line_UA12,
   Line_BadMon, Line_Naive, Line_NaiveP2, Line_Long, Line_NoRoute,
   Line_Noise1, Line_Noise3}

\* the most lines a text holds
MaxLines == 2

Texts ==
  {<<"\n">> \o JoinLines(ls) \o <<"\n">> :
     ls \in UNION {[1..n -> Catalogue] : n \in 0..MaxLines}}

(***************************************************************************)
(* build_itinerary, one action per step, and its callers                   *)
(***************************************************************************)
\* lines = [ln.rstrip("\n") for ln in text.splitlines() if ln.strip()]
NonBlankLines(t) == SelectSeq(SplitLines(t), LAMBDA ln : Strip(ln) # <<>>)

NoOutcome == [kind |-> "none", value |-> <<>>, exc |-> "", text |-> <<>>]

\* what a finished call gave its caller, the string returned or the exception raised,
\* and the text it was called with
Outcome ==
  IF pc = "done" THEN [kind |-> "returned", value |-> result, exc |-> "", text |-> text]
  ELSE [kind |-> "raised", value |-> <<>>, exc |-> exc, text |-> text]

Finished == pc \in {"done", "raised"}

\* a call of build_itinerary(t, year)
Call(t) ==
  /\ text' = t
  /\ pc' = "start"
  /\ lines' = <<>>
  /\ idx' = 1
  /\ segments' = <<>>
  /\ out' = <<>>
  /\ prev_arr' = <<>>
  /\ result' = <<>>
  /\ exc' = ""

Init ==
  /\ text \in Texts
  /\ year \in Years
  /\ mode = "first"
  /\ pc = "start"
  /\ lines = <<>>
  /\ idx = 1
  /\ segments = <<>>
  /\ out = <<>>
  /\ prev_arr = <<>>
  /\ result = <<>>
  /\ exc = ""
  /\ first = NoOutcome

SplitInput ==
  /\ pc = "start"
  /\ lines' = NonBlankLines(text)
  /\ pc' = "parse"
  /\ UNCHANGED <<text, year, mode, idx, segments, out, prev_arr, result, exc, first>>

\* one turn of the loop over the lines
ParseLine ==
  /\ pc = "parse"
  /\ idx <= Len(lines)
  /\ LET seg == parse_segment_line(lines[idx], year, idx)
     IN IF seg.kind = "raise"
          THEN /\ pc' = "raised"
               /\ exc' = seg.exc
               /\ UNCHANGED <<idx, segments>>
        ELSE /\ segments' = IF seg.kind = "Segment" THEN Append(segments, seg.seg)
                            ELSE segments
             /\ idx' = idx + 1
             /\ UNCHANGED <<pc, exc>>
  /\ UNCHANGED <<text, year, mode, lines, out, prev_arr, result, first>>

\* if not segments: return the message
NoSegments ==
  /\ pc = "parse"
  /\ idx > Len(lines)
  /\ segments = <<>>
  /\ result' = NoSegmentsMessage
  /\ pc' = "done"
  /\ UNCHANGED <<text, year, mode, lines, idx, segments, out, prev_arr, exc, first>>

\* segments.sort(...): a list holding an aware and a naive departure cannot be put
\* in order without comparing an aware datetime with a naive one, whatever pairs
\* the sort compares, and that comparison is a TypeError
SortSegments ==
  /\ pc = "parse"
  /\ idx > Len(lines)
  /\ segments # <<>>
  /\ IF \E i, j \in DOMAIN segments : ~Comparable(segments[i].dep_local, segments[j].dep_local)
       THEN /\ pc' = "raised"
            /\ exc' = "TypeError"
            /\ UNCHANGED <<idx, segments>>
     ELSE /\ segments' = SortByDeparture(segments)
          /\ idx' = 1
          /\ pc' = "emit"
          /\ exc' = exc
  /\ UNCHANGED <<text, year, mode, lines, out, prev_arr, result, first>>

\* one turn of the loop over the sorted segments
EmitSegment ==
  /\ pc = "emit"
  /\ idx <= Len(segments)
  /\ LET s == segments[idx]
         lay == Minus(s.dep_local, prev_arr[1])
     IN IF prev_arr # <<>> /\ ~Comparable(s.dep_local, prev_arr[1])
          THEN /\ pc' = "raised"
               /\ exc' = "TypeError"
               /\ UNCHANGED <<idx, out, prev_arr>>
        ELSE /\ out' = (IF prev_arr # <<>> /\ LayoverDue(lay)
                          THEN Append(out, RenderLayover(lay)) ELSE out)
                       \o <<RenderSegment(s)>>
             /\ prev_arr' = <<s.arr_local>>
             /\ idx' = idx + 1
             /\ UNCHANGED <<pc, exc>>
  /\ UNCHANGED <<text, year, mode, lines, segments, result, first>>

\* return "\n".join(out)
JoinOutput ==
  /\ pc = "emit"
  /\ idx > Len(segments)
  /\ result' = JoinLines(out)
  /\ pc' = "done"
  /\ UNCHANGED <<text, year, mode, lines, idx, segments, out, prev_arr, exc, first>>

\* the line begins, after leading white space, with an integer followed by white
\* space: its first token is made of digits and is not the end of the line
BeginsWithInteger(line) ==
  LET toks == Split(line)
  IN /\ toks # <<>>
     /\ \A k \in DOMAIN toks[1] : toks[1][k] \in Digits
     /\ RunLen(line, 1, WhiteSpace) + Len(toks[1]) < Len(line)

\* t without its lines that do not begin with an integer
WithoutNoise(t) == JoinLines(SelectSeq(SplitLines(t), BeginsWithInteger))

\* the text has a line, not blank, that does not begin with an integer
HasNoise(t) ==
  \E k \in DOMAIN SplitLines(t) :
    Strip(SplitLines(t)[k]) # <<>> /\ ~BeginsWithInteger(SplitLines(t)[k])

\* the caller calls again, with the same text less its noise lines
CallWithoutNoise ==
  /\ mode = "first"
  /\ Finished
  /\ HasNoise(text)
  /\ mode' = "denoised"
  /\ first' = Outcome
  /\ Call(WithoutNoise(text))
  /\ UNCHANGED year

\* the caller calls again, with the string the first call returned
CallOnOutput ==
  /\ mode = "first"
  /\ pc = "done"
  /\ mode' = "refeed"
  /\ first' = Outcome
  /\ Call(result)
  /\ UNCHANGED year

Next ==
  \/ SplitInput
  \/ ParseLine
  \/ NoSegments
  \/ SortSegments
  \/ EmitSegment
  \/ JoinOutput
  \/ CallWithoutNoise
  \/ CallOnOutput

Spec == Init /\ [][Next]_vars

(***************************************************************************)
(* The properties                                                          *)
(***************************************************************************)
\* the tokens of the line a Segment of the run was parsed from
TokensOfSegment(s) == Split(Strip(lines[s.src]))

\* the lines of the string a finished call returned
OutputLines == SplitLines(result)

IsLayoverLine(l) == l # <<>> /\ l[1] = "_"

IsSegmentLine(l) == l # <<>> /\ l[1] = "<calendar>"

\* the arrival as the line gives it: the date, the arrival time, the +N days
RawArrivalWall(s) ==
  LET t == pick_times(TokensOfSegment(s))
  IN parse_date(s.date_str, year).wall + ParseInt(SubSeq(t.arr, 1, 2)) * 60
       + ParseInt(SubSeq(t.arr, 3, 4)) + t.offset * MinutesPerDay

\* C1: the arrival of every Segment parse_segment_line returned, zone-aware or naive,
\* with or without +N on the arrival token, is not before its departure on the
\* common timeline (UTC for the aware ones, the one implied zone for the naive ones).
C1_ArrivalNotBeforeDeparture ==
  \A i \in DOMAIN segments : Utc(segments[i].arr_local) >= Utc(segments[i].dep_local)

\* a run holding a zone-aware Segment the loop moved by two days and a naive Segment
\* the fallback moved by one
C1_Witness ==
  /\ \E i \in DOMAIN segments :
       /\ segments[i].arr_local.aware
       /\ segments[i].arr_local.wall = RawArrivalWall(segments[i]) + 2 * MinutesPerDay
  /\ \E i \in DOMAIN segments :
       /\ ~segments[i].arr_local.aware
       /\ segments[i].arr_local.wall = RawArrivalWall(segments[i]) + MinutesPerDay

\* the leading run of letters of the upper-cased token
LetterRun(tok) == RunLen(Upper(tok), 1, UpperLetters)

\* C2: a Segment from a line whose token[1] is two letters followed by one to four
\* digits has the two letters as airline and the digits as flight number; one from a
\* line whose token[1] is two letters and whose token[2] begins with one to four
\* digits has token[1] as airline and those digits as flight number.
C2_FlightIdentifier ==
  \A i \in DOMAIN segments :
    LET toks == TokensOfSegment(segments[i])
        t1 == Upper(Tok(toks, 1))
        t2 == Upper(Tok(toks, 2))
    IN /\ (/\ Len(t1) \in 3..6
           /\ LetterRun(t1) = 2
           /\ RunLen(t1, 3, Digits) = Len(t1) - 2)
          => /\ segments[i].airline = SubSeq(t1, 1, 2)
             /\ segments[i].flight = SubSeq(t1, 3, Len(t1))
       /\ (/\ Len(t1) = 2
           /\ LetterRun(t1) = 2
           /\ RunLen(t2, 1, Digits) \in 1..4)
          => /\ segments[i].airline = t1
             /\ segments[i].flight = SubSeq(t2, 1, RunLen(t2, 1, Digits))

\* the line is eligible and has a token of two digits and three letters whose
\* letters are no month
HasUnknownMonth(line) ==
  LET toks == Split(line)
  IN /\ BeginsWithInteger(line)
     /\ \E k \in DOMAIN toks :
          /\ Len(toks[k]) = 5
          /\ RunLen(toks[k], 1, Digits) = 2
          /\ LetterRun(SubSeq(toks[k], 3, 5)) = 3
          /\ \A m \in DOMAIN MonthNames : MonthNames[m] # Upper(SubSeq(toks[k], 3, 5))

\* every line of the run that parses to a Segment has its rendering in the output
EveryParsedLineRendered ==
  LET ol == OutputLines
  IN \A k \in DOMAIN lines :
       LET r == parse_segment_line(lines[k], year, k)
       IN r.kind = "Segment" => \E j \in DOMAIN ol : ol[j] = RenderSegment(r.seg)

\* C3: a call whose text has an eligible line with an unknown month abbreviation
\* surfaces no error: it returns, and what it returns renders every line that parses.
C3_BadLineDropped ==
  (/\ Finished
   /\ exc # "TypeError"
   /\ \E k \in DOMAIN lines : HasUnknownMonth(lines[k]))
  => (pc = "done" /\ EveryParsedLineRendered)

\* C4: a call in which a Segment was built naive, for want of a zone, others being
\* zone-aware or not, completes the sort and the layovers and returns a string
\* rendering every parsed Segment.
C4_LookupMissNotFatal ==
  (/\ Finished
   /\ exc # "ValueError"
   /\ \E i \in DOMAIN segments : ~segments[i].dep_local.aware)
  => (pc = "done" /\ EveryParsedLineRendered)

\* the Segment at position k of the sorted list departs after the one before it arrived
GapPositive(k) ==
  /\ k \in 2..Len(segments)
  /\ Utc(segments[k].dep_local) > Utc(segments[k - 1].arr_local)

\* where the line of the Segment at position k stands when a layover line precedes
\* exactly the Segments with a positive gap
LinePos(k) == k + Cardinality({j \in 2..k : GapPositive(j)})

\* C5: the output holds the segment lines in the order of the sorted list, a layover
\* line right before the line of Segment i+1 exactly when departure(i+1) is later
\* than arrival(i), and no other line: none for a gap of zero or less, none first.
C5_LayoverExactlyWhenGap ==
  (pc = "done" /\ segments # <<>>) =>
    LET ol == OutputLines
    IN /\ Len(ol) = LinePos(Len(segments))
       /\ \A k \in DOMAIN segments :
            /\ IsSegmentLine(ol[LinePos(k)])
            /\ GapPositive(k) => IsLayoverLine(ol[LinePos(k) - 1])

\* an output of two segment lines with a layover line between them
C5_Witness ==
  /\ pc = "done"
  /\ Len(segments) = 2
  /\ GapPositive(2)
  /\ Len(OutputLines) = 3
  /\ IsLayoverLine(OutputLines[2])

\* C6: a call on a text gives what the call on the same text without the lines that
\* do not begin with an integer followed by white space gives: the same string, or
\* the same exception.
C6_NoiseIgnored ==
  (mode = "denoised" /\ Finished) =>
    /\ Outcome.kind = first.kind
    /\ Outcome.value = first.value
    /\ Outcome.exc = first.exc

\* a text with a noise line and a line that is rendered, called a second time
\* without the noise line
C6_Witness ==
  /\ mode = "denoised"
  /\ pc = "done"
  /\ segments # <<>>
  /\ HasNoise(first.text)
  /\ Len(NonBlankLines(first.text)) > Len(NonBlankLines(text))

\* C7: no line of a returned string satisfies SEGMENT_START_RE, and the call on a
\* returned string recognizes no Segment and returns the no-segments message.
C7_OutputIsNotInput ==
  /\ pc = "done" =>
       LET ol == OutputLines IN \A j \in DOMAIN ol : ~SEGMENT_START_RE(ol[j])
  /\ mode = "refeed" =>
       /\ segments = <<>>
       /\ pc \in {"start", "parse", "done"}
       /\ pc = "done" => result = NoSegmentsMessage

\* the call on an output of two segment lines and a layover line has returned
C7_Witness ==
  /\ mode = "refeed"
  /\ pc = "done"
  /\ Len(SplitLines(first.value)) = 3
  /\ IsLayoverLine(SplitLines(first.value)[2])
  /\ IsSegmentLine(SplitLines(first.value)[3])

\* C8: the segment lines of the output are the renderings of the Segments in
\* ascending order of departure instant, Segments departing at the same instant in
\* the order of their lines in the input.
C8_SortedByDeparture ==
  (pc = "done" /\ segments # <<>>) =>
    LET segLines == SelectSeq(OutputLines, IsSegmentLine)
    IN /\ Len(segLines) = Len(segments)
       /\ \A k \in DOMAIN segments : segLines[k] = RenderSegment(segments[k])
       /\ \A i, j \in DOMAIN segments :
            i < j =>
              \/ Utc(segments[i].dep_local) < Utc(segments[j].dep_local)
              \/ /\ Utc(segments[i].dep_local) = Utc(segments[j].dep_local)
                 /\ segments[i].src < segments[j].src

\* an output whose first segment line is of a later line of the input than its second
C8_Witness ==
  /\ pc = "done"
  /\ Len(segments) = 2
  /\ segments[1].src > segments[2].src
  /\ Utc(segments[1].dep_local) < Utc(segments[2].dep_local)

\* the 0-based position of the date token among the tokens of a line
DatePositionOf(toks) == DateIndex(toks, FlightIdentifier(toks).cursor)

\* the first token after position d whose leading letter run satisfies Long
FirstAfter(toks, d, Long(_)) ==
  LET hits == {i \in (d + 1)..(Len(toks) - 1) : Long(LetterRun(Tok(toks, i)))}
  IN IF hits = {} THEN -1 ELSE CHOOSE i \in hits : \A j \in hits : i <= j

RouteIs(s, toks, r) ==
  /\ r >= 0
  /\ s.origin = SubSeq(Upper(Tok(toks, r)), 1, 3)
  /\ s.dest = SubSeq(Upper(Tok(toks, r)), 4, 6)

ExactlySix(n) == n = 6

AtLeastSix(n) == n >= 6

\* C9 as stated: the route of a Segment is the first token after the date token
\* whose leading run of letters is exactly 6 letters long; a token with a longer
\* run is passed over.
C9_RouteExactlySixLetters ==
  \A i \in DOMAIN segments :
    LET toks == TokensOfSegment(segments[i])
    IN RouteIs(segments[i], toks, FirstAfter(toks, DatePositionOf(toks), ExactlySix))

\* parse_segment_line has just returned the last Segment of the list
JustReturned ==
  /\ pc = "parse"
  /\ segments # <<>>
  /\ segments[Len(segments)].src = idx - 1

\* C9, amended: the route of the Segment parse_segment_line returns is the first
\* token after the date token whose leading run of letters is at least 6 letters
\* long; its letters 1-3 are the origin and 4-6 the destination, whatever follows
\* the sixth letter.
C9_RouteFirstSixLetters ==
  JustReturned =>
    LET s == segments[Len(segments)]
        toks == TokensOfSegment(s)
    IN RouteIs(s, toks, FirstAfter(toks, DatePositionOf(toks), AtLeastSix))

\* a Segment just returned whose route token goes on after its six letters with a
\* character that is no letter
C9_Witness ==
  /\ JustReturned
  /\ LET toks == TokensOfSegment(segments[Len(segments)])
         r == FirstAfter(toks, DatePositionOf(toks), AtLeastSix)
     IN LetterRun(Tok(toks, r)) = 6 /\ Len(Tok(toks, r)) > 6

\* C10: the two tokens a Segment's times were taken from are neither the sequence
\* number nor a token of the flight identifier: they stand at or after the cursor.
C10_TimesAreNotConsumedTokens ==
  \A i \in DOMAIN segments :
    LET toks == TokensOfSegment(segments[i])
        cursor == FlightIdentifier(toks).cursor
        times == TimePositions(toks)
    IN /\ times[1] >= cursor
       /\ times[2] >= cursor
       /\ HHMM(segments[i].dep_local) =
            SubSeq(Tok(toks, times[1]), 1, 2) \o <<":">> \o SubSeq(Tok(toks, times[1]), 3, 4)
====
